---- MODULE Spec2Model ----
(***************************************************************************)
(* Model of the MCP server template: the tool registry                     *)
(* (src/tools/tool-registry.js), the server entry point                    *)
(* (src/server/index.js) and the item document the built-in tools work on. *)
(*                                                                         *)
(* SpecRegistry is the registry object called directly; SpecStartup is the *)
(* server started over a directory of custom tools; Spec is the server     *)
(* with its built-in tools and the document they read and write.           *)
(*                                                                         *)
(* JavaScript values are records tagged with their type; `undefined` is    *)
(* the string "undefined" wherever a string-typed slot may be absent.      *)
(* Array.prototype.filter is SelectSeq.                                    *)
(* Messages built by template literals are sequences of their pieces.      *)
(***************************************************************************)
EXTENDS Integers, Sequences, FiniteSets, TLC

VARIABLES
    tools,        \* ToolRegistry.tools: the Map, as its entries in insertion order
    CONFIG,       \* the configuration main() loaded
    config,       \* ToolRegistry.config
    pc,           \* position of initialize() within main()
    connected,    \* a transport is attached to the server
    dir,          \* the custom tools directory on disk: file name -> module
    toolFiles,    \* loadCustomTools: the filtered readdir listing
    diagnostics,  \* console.error lines written by loadCustomTools
    initCount,    \* number of calls of toolRegistry.initialize
    doc,          \* <dataDir>/items.json
    now,          \* Date.now()
    last,         \* the call that completed last, with the registry before it
    prev,         \* the call before `last`: a registration, or a request
    inflight,     \* the add_item and remove_item calls suspended at an await
    env,          \* process.env: the MCP_ variables
    disk          \* the configuration file found and the directories there are

vars == <<tools, CONFIG, config, pc, connected, dir, toolFiles, diagnostics,
          initCount, doc, now, last, prev, inflight, env, disk>>

----------------------------------------------------------------------------
(* Bounds *)

MaxItems == 2      \* items kept in the document
MaxClock == 2      \* values Date.now() takes
NumFiles == 2      \* .js files in the custom tools directory

----------------------------------------------------------------------------
(* JavaScript values *)

undefined == "undefined"

\* !v for the string-typed slots of the model: undefined and '' are falsy
Falsy(v) == v \in {undefined, ""}

\* a || b
Or(a, b) == IF Falsy(a) THEN b ELSE a

ErrorTypes == {"Error", "TypeError", "SyntaxError"}

Error(msg) == [type |-> "Error", message |-> msg]
TypeError(msg) == [type |-> "TypeError", message |-> msg]

Return(v) == [kind |-> "return", value |-> v]
Throw(e) == [kind |-> "throw", error |-> e]

JsUndefined == [type |-> "undefined"]
JsNull == [type |-> "null"]
JsString(t) == [type |-> "string", text |-> t]

\* the property read error.message
\* (a property read on null or undefined throws a TypeError)
ReadMessage(e) ==
    IF e.type \in {"null", "undefined"}
    THEN Throw(TypeError(<<"Cannot read properties of ", e.type,
                           " (reading 'message')">>))
    ELSE IF e.type \in ErrorTypes \/ (e.type = "object" /\ "message" \in DOMAIN e)
    THEN Return(e.message)
    ELSE Return(<<undefined>>)

----------------------------------------------------------------------------
(* Map: entries <<key, value>> in insertion order *)

MapHas(m, k) == \E i \in 1..Len(m) : m[i].key = k

MapIndex(m, k) == CHOOSE i \in 1..Len(m) : m[i].key = k

MapGet(m, k) == m[MapIndex(m, k)].value

\* a set that never replaces
MapSet_append(m, k, v) == Append(m, [key |-> k, value |-> v])

\* Map.prototype.set: a present key keeps its position, a new key is appended
MapSet(m, k, v) ==
    IF MapHas(m, k)
    THEN [m EXCEPT ![MapIndex(m, k)] = [key |-> k, value |-> v]]
    ELSE Append(m, [key |-> k, value |-> v])

MapKeys(m) == {m[i].key : i \in 1..Len(m)}

MapValues(m) == [i \in 1..Len(m) |-> m[i].value]

----------------------------------------------------------------------------
(* ToolRegistry *)

DefaultSchema == "{type:'object',properties:{}}"

\* registerTool without the defaults for description and inputSchema
registerTool_nodefault(m, tool) ==
    IF Falsy(tool.name) \/ Falsy(tool.handler)
    THEN [outcome |-> Throw(Error(<<"Tool must have a name and handler">>)),
          tools |-> m]
    ELSE [outcome |-> Return(JsUndefined),
          tools |-> MapSet(m, tool.name,
                           [name |-> tool.name,
                            description |-> tool.description,
                            inputSchema |-> tool.inputSchema,
                            handler |-> tool.handler])]

\* registerTool that stores a named tool before it looks at the handler
registerTool_setfirst(m, tool) ==
    IF Falsy(tool.name)
    THEN [outcome |-> Throw(Error(<<"Tool must have a name and handler">>)),
          tools |-> m]
    ELSE [outcome |-> IF Falsy(tool.handler)
                      THEN Throw(Error(<<"Tool must have a name and handler">>))
                      ELSE Return(JsUndefined),
          tools |-> MapSet(m, tool.name,
                           [name |-> tool.name,
                            description |-> Or(tool.description, ""),
                            inputSchema |-> Or(tool.inputSchema, DefaultSchema),
                            handler |-> tool.handler])]

\* registerTool(tool): the outcome and the Map after the call
registerTool(m, tool) ==
    IF Falsy(tool.name) \/ Falsy(tool.handler)
    THEN [outcome |-> Throw(Error(<<"Tool must have a name and handler">>)),
          tools |-> m]
    ELSE [outcome |-> Return(JsUndefined),
          tools |-> MapSet(m, tool.name,
                           [name |-> tool.name,
                            description |-> Or(tool.description, ""),
                            inputSchema |-> Or(tool.inputSchema, DefaultSchema),
                            handler |-> tool.handler])]

\* getTools that hands out the stored descriptors themselves
getTools_stored(m) == MapValues(m)

\* getTools()
getTools(m) ==
    [i \in 1..Len(m) |-> [name |-> MapValues(m)[i].name,
                          description |-> MapValues(m)[i].description,
                          inputSchema |-> MapValues(m)[i].inputSchema]]

\* hasTool(name)
hasTool(m, name) == MapHas(m, name)

----------------------------------------------------------------------------
(* The item document and the built-in handlers *)

JsNumber(n) == [type |-> "number", num |-> n]
JsObject == [type |-> "object"]

\* o.f for an object o
Prop(o, f) == IF f \in DOMAIN o THEN o[f] ELSE JsUndefined

\* if (v)
Truthy(v) ==
    CASE v.type \in {"undefined", "null"} -> FALSE
      [] v.type = "number" -> v.num # 0
      [] v.type = "string" -> v.text # <<>>
      [] OTHER -> TRUE

\* reading property f of args when args is undefined
ReadOfUndefined(f) ==
    Throw(TypeError(<<"Cannot read properties of undefined (reading '", f, "')">>))

\* String.prototype.toLowerCase, on texts kept as sequences of characters
LowerChar(c) == CASE c = "A" -> "a" [] c = "B" -> "b" [] OTHER -> c
toLowerCase(t) == [i \in 1..Len(t) |-> LowerChar(t[i])]

\* String.prototype.includes
includes(h, n) ==
    \E i \in 0..(Len(h) - Len(n)) : SubSeq(h, i + 1, i + Len(n)) = n

\* Array.prototype.slice(0, n)
slice0(s, n) ==
    IF n >= 0 THEN SubSeq(s, 1, IF n < Len(s) THEN n ELSE Len(s))
    ELSE SubSeq(s, 1, Len(s) + n)

DocAbsent == [exists |-> FALSE]
DocOf(items) == [exists |-> TRUE, items |-> items]

\* String(v), as the regular expression test converts its argument
TextOf(v) ==
    IF v.type = "string" THEN v.text
    ELSE <<"u", "n", "d", "e", "f", "i", "n", "e", "d">>

\* new RegExp(pattern, 'i').test(text) for the patterns the model sends:
\* literal characters, matched anywhere in the text without regard to case
regexTest(pattern, text) == includes(toLowerCase(text), toLowerCase(pattern))

\* an unterminated group is not a regular expression
InvalidPattern == <<"(">>

\* list_items storing the items it returned
list_items_saving(args, d) ==
    IF ~d.exists
    THEN [outcome |-> Return([type |-> "object", items |-> <<>>, count |-> 0]),
          doc |-> DocOf(<<>>), wrote |-> TRUE]
    ELSE IF args.type = "undefined"
    THEN [outcome |-> ReadOfUndefined("filter"), doc |-> d, wrote |-> FALSE]
    ELSE LET items == IF Truthy(Prop(args, "limit"))
                      THEN slice0(d.items, args.limit.num)
                      ELSE d.items
         IN [outcome |-> Return([type |-> "object", items |-> items,
                                 count |-> Len(items)]),
             doc |-> DocOf(items), wrote |-> TRUE]

\* handler of list_items
list_items(args, d) ==
    IF ~d.exists
    THEN [outcome |-> Return([type |-> "object", items |-> <<>>, count |-> 0]),
          doc |-> d, wrote |-> FALSE]
    ELSE IF args.type = "undefined"
    THEN [outcome |-> ReadOfUndefined("filter"), doc |-> d, wrote |-> FALSE]
    ELSE IF Truthy(Prop(args, "filter")) /\ args.filter.text = InvalidPattern
    THEN [outcome |-> Throw([type |-> "SyntaxError",
                             message |-> <<"Invalid regular expression: /",
                                           "(", "/: Unterminated group">>]),
          doc |-> d, wrote |-> FALSE]
    ELSE LET Match(item) == regexTest(args.filter.text,
                                      TextOf(Prop(item, "name")))
                            \/ regexTest(args.filter.text,
                                         TextOf(Prop(item, "description")))
             filtered == IF Truthy(Prop(args, "filter"))
                         THEN SelectSeq(d.items, Match)
                         ELSE d.items
             items == IF Truthy(Prop(args, "limit"))
                      THEN slice0(filtered, args.limit.num)
                      ELSE filtered
         IN [outcome |-> Return([type |-> "object", items |-> items,
                                 count |-> Len(items)]),
             doc |-> d, wrote |-> FALSE]

\* Date.now().toString()
IdOf(t) == JsString(ToString(t))

\* an item as fs.writeJson stores it and fs.readJson gives it back:
\* JSON.stringify leaves out the properties whose value is undefined
writeJson(item) ==
    [f \in {g \in DOMAIN item : item[g].type # "undefined"} |-> item[f]]

\* add_item putting the new item first
add_item_unshift(args, d, t) ==
    IF args.type = "undefined"
    THEN [outcome |-> ReadOfUndefined("name"), doc |-> d, wrote |-> FALSE]
    ELSE LET data == IF d.exists THEN d.items ELSE <<>>
             newItem == [id |-> IdOf(t),
                         name |-> Prop(args, "name"),
                         description |-> Prop(args, "description"),
                         metadata |-> IF Truthy(Prop(args, "metadata"))
                                      THEN args.metadata ELSE JsObject,
                         createdAt |-> JsString(<<"ISO", ToString(t)>>)]
         IN [outcome |-> Return([type |-> "object", success |-> TRUE,
                                 item |-> newItem,
                                 message |-> <<"Item '", Prop(args, "name"),
                                               "' added successfully">>]),
             doc |-> DocOf(<<writeJson(newItem)>> \o data), wrote |-> TRUE]

\* handler of add_item
add_item(args, d, t) ==
    IF args.type = "undefined"
    THEN [outcome |-> ReadOfUndefined("name"), doc |-> d, wrote |-> FALSE]
    ELSE LET data == IF d.exists THEN d.items ELSE <<>>
             newItem == [id |-> IdOf(t),
                         name |-> Prop(args, "name"),
                         description |-> Prop(args, "description"),
                         metadata |-> IF Truthy(Prop(args, "metadata"))
                                      THEN args.metadata ELSE JsObject,
                         createdAt |-> JsString(<<"ISO", ToString(t)>>)]
         IN [outcome |-> Return([type |-> "object", success |-> TRUE,
                                 item |-> newItem,
                                 message |-> <<"Item '", Prop(args, "name"),
                                               "' added successfully">>]),
             doc |-> DocOf(Append(data, writeJson(newItem))), wrote |-> TRUE]

\* item.id !== args.id
IdDiffers(item, id) == ~(id.type = "string" /\ id.text = item.id.text)

\* remove_item writing what is left whether or not an item matched
remove_item_always(args, d) ==
    IF ~d.exists
    THEN [outcome |-> Throw(Error(<<"No items found">>)), doc |-> d,
          wrote |-> FALSE]
    ELSE IF args.type = "undefined"
    THEN [outcome |-> ReadOfUndefined("id"), doc |-> d, wrote |-> FALSE]
    ELSE LET Keep(item) == IdDiffers(item, Prop(args, "id"))
             kept == SelectSeq(d.items, Keep)
         IN [outcome |-> Return([type |-> "object", success |-> TRUE,
                                 message |-> <<"Item '", Prop(args, "id"),
                                               "' removed successfully">>]),
             doc |-> DocOf(kept), wrote |-> TRUE]

\* handler of remove_item
remove_item(args, d) ==
    IF ~d.exists
    THEN [outcome |-> Throw(Error(<<"No items found">>)), doc |-> d,
          wrote |-> FALSE]
    ELSE IF args.type = "undefined"
    THEN [outcome |-> ReadOfUndefined("id"), doc |-> d, wrote |-> FALSE]
    ELSE LET Keep(item) == IdDiffers(item, Prop(args, "id"))
             kept == SelectSeq(d.items, Keep)
         IN IF Len(kept) = Len(d.items)
            THEN [outcome |-> Throw(Error(<<"Item with ID '", Prop(args, "id"),
                                            "' not found">>)),
                  doc |-> d, wrote |-> FALSE]
            ELSE [outcome |-> Return([type |-> "object", success |-> TRUE,
                                      message |-> <<"Item '", Prop(args, "id"),
                                                    "' removed successfully">>]),
                  doc |-> DocOf(kept), wrote |-> TRUE]

\* JSON.stringify of the objects the model stores: the empty object
stringify(value) == <<"{", "}">>

\* the test of one field without the lowering of the field's text
FieldMatches_exact(item, field, query) ==
    LET value == Prop(item, field)
    IN IF value.type = "string"
       THEN includes(value.text, query)
       ELSE IF value.type = "object"
       THEN includes(stringify(value), query)
       ELSE FALSE

\* the test of one field of one item in search_items
FieldMatches(item, field, query) ==
    LET value == Prop(item, field)
    IN IF value.type = "string"
       THEN includes(toLowerCase(value.text), query)
       ELSE IF value.type = "object"
       THEN includes(toLowerCase(stringify(value)), query)
       ELSE FALSE

\* handler of search_items
search_items(args, d) ==
    IF ~d.exists
    THEN [outcome |-> Return([type |-> "object", results |-> <<>>, count |-> 0]),
          doc |-> d, wrote |-> FALSE]
    ELSE IF args.type = "undefined"
    THEN [outcome |-> ReadOfUndefined("query"), doc |-> d, wrote |-> FALSE]
    ELSE IF Prop(args, "query").type # "string"
    THEN [outcome |-> Throw(TypeError(<<"Cannot read properties of undefined",
                                        " (reading 'toLowerCase')">>)),
          doc |-> d, wrote |-> FALSE]
    ELSE LET query == toLowerCase(args.query.text)
             fields == IF "fields" \in DOMAIN args THEN args.fields
                       ELSE <<"name", "description">>
             Match(item) == \E i \in 1..Len(fields) :
                                FieldMatches(item, fields[i], query)
             results == SelectSeq(d.items, Match)
         IN [outcome |-> Return([type |-> "object", results |-> results,
                                 count |-> Len(results)]),
             doc |-> d, wrote |-> FALSE]

\* handler of get_status
get_status(d, cfg, size, t) ==
    [outcome |-> Return([type |-> "object",
                         serverName |-> cfg.serverName,
                         uptime |-> t,
                         totalItems |-> IF d.exists THEN Len(d.items) ELSE 0,
                         registeredTools |-> size,
                         dataDir |-> cfg.dataDir]),
     doc |-> d, wrote |-> FALSE]

BuiltInNames ==
    <<"list_items", "add_item", "remove_item", "search_items", "get_status">>

\* the handler closures created by loadBuiltInTools, named after their tool
BuiltInHandler(name) == "builtin:" \o name

----------------------------------------------------------------------------
(* Dispatch *)

\* what a handler written by a user of the registry may do when called
CustomOutcomes ==
    {Return(JsString(<<"o", "k">>)),
     Return([type |-> "object", success |-> TRUE]),
     Return(JsUndefined),
     Throw(Error(<<"boom">>)),
     Throw([type |-> "object", message |-> <<"custom">>]),
     Throw([type |-> "object"]),
     Throw(JsString(<<"boom">>)),
     Throw(JsNull),
     Throw(JsUndefined)}

IsBuiltInHandler(h) == \E i \in 1..Len(BuiltInNames) : h = BuiltInHandler(BuiltInNames[i])

\* tool.handler(args): the possible outcomes, each with the document it leaves
handlerRuns(h, args, d, cfg, size, t) ==
    CASE h = BuiltInHandler("list_items") -> {list_items(args, d)}
      [] h = BuiltInHandler("add_item") -> {add_item(args, d, t)}
      [] h = BuiltInHandler("remove_item") -> {remove_item(args, d)}
      [] h = BuiltInHandler("search_items") -> {search_items(args, d)}
      [] h = BuiltInHandler("get_status") -> {get_status(d, cfg, size, t)}
      [] OTHER -> {[outcome |-> o, doc |-> d, wrote |-> FALSE]
                   : o \in CustomOutcomes}

\* the catch block of executeTool
executeToolCatch(name, error) ==
    LET msg == ReadMessage(error)
    IN IF msg.kind = "throw" THEN msg
       ELSE Throw(Error(<<"Tool '", name, "' execution failed: ">> \o msg.value))

\* the registry without the entry under k
MapDelete(m, k) == SelectSeq(m, LAMBDA e : e.key # k)

\* executeTool that drops a tool from the registry when its handler fails
executeTool_evict(m, name, args, d, cfg, t) ==
    IF ~MapHas(m, name)
    THEN {[outcome |-> Throw(Error(<<"Tool '", name, "' not found">>)),
           raw |-> [kind |-> "none"], invoked |-> <<>>, doc |-> d,
           wrote |-> FALSE, tools |-> m]}
    ELSE LET tool == MapGet(m, name)
         IN {[outcome |-> IF r.outcome.kind = "return" THEN r.outcome
                          ELSE executeToolCatch(name, r.outcome.error),
              raw |-> r.outcome,
              invoked |-> <<[handler |-> tool.handler, args |-> args]>>,
              doc |-> r.doc,
              wrote |-> r.wrote,
              tools |-> IF r.outcome.kind = "return" THEN m
                        ELSE MapDelete(m, name)]
             : r \in handlerRuns(tool.handler, args, d, cfg, Len(m), t)}

\* executeTool that answers undefined for a name it does not know
executeTool_lenient(m, name, args, d, cfg, t) ==
    IF ~MapHas(m, name)
    THEN {[outcome |-> Return(JsUndefined),
           raw |-> [kind |-> "none"], invoked |-> <<>>, doc |-> d,
           wrote |-> FALSE, tools |-> m]}
    ELSE LET tool == MapGet(m, name)
         IN {[outcome |-> IF r.outcome.kind = "return" THEN r.outcome
                          ELSE executeToolCatch(name, r.outcome.error),
              raw |-> r.outcome,
              invoked |-> <<[handler |-> tool.handler, args |-> args]>>,
              doc |-> r.doc,
              wrote |-> r.wrote,
              tools |-> m]
             : r \in handlerRuns(tool.handler, args, d, cfg, Len(m), t)}

\* executeTool that hands the handler an empty object when args is absent
executeTool_defaulting(m, name, args, d, cfg, t) ==
    IF ~MapHas(m, name)
    THEN {[outcome |-> Throw(Error(<<"Tool '", name, "' not found">>)),
           raw |-> [kind |-> "none"], invoked |-> <<>>, doc |-> d,
           wrote |-> FALSE, tools |-> m]}
    ELSE LET tool == MapGet(m, name)
             given == IF args.type = "undefined" THEN JsObject ELSE args
         IN {[outcome |-> IF r.outcome.kind = "return" THEN r.outcome
                          ELSE executeToolCatch(name, r.outcome.error),
              raw |-> r.outcome,
              invoked |-> <<[handler |-> tool.handler, args |-> given]>>,
              doc |-> r.doc,
              wrote |-> r.wrote,
              tools |-> m]
             : r \in handlerRuns(tool.handler, given, d, cfg, Len(m), t)}

\* executeTool(name, args): the possible results; `raw` is what the handler
\* did and `invoked` the handler calls made
executeTool(m, name, args, d, cfg, t) ==
    IF ~MapHas(m, name)
    THEN {[outcome |-> Throw(Error(<<"Tool '", name, "' not found">>)),
           raw |-> [kind |-> "none"], invoked |-> <<>>, doc |-> d,
           wrote |-> FALSE, tools |-> m]}
    ELSE LET tool == MapGet(m, name)
         IN {[outcome |-> IF r.outcome.kind = "return" THEN r.outcome
                          ELSE executeToolCatch(name, r.outcome.error),
              raw |-> r.outcome,
              invoked |-> <<[handler |-> tool.handler, args |-> args]>>,
              doc |-> r.doc,
              wrote |-> r.wrote,
              tools |-> m]
             : r \in handlerRuns(tool.handler, args, d, cfg, Len(m), t)}

----------------------------------------------------------------------------
(* The registry used directly, as its unit tests use it *)

Names == {undefined, "", "t1", "t2"}
Handlers == {undefined, "h1", "h2"}

\* description and inputSchema: both absent, both present, or an empty
\* description with a schema
Presentations ==
    {[description |-> undefined, inputSchema |-> undefined],
     [description |-> "d1", inputSchema |-> "s1"],
     [description |-> "", inputSchema |-> "s2"]}

Descriptors ==
    {[name |-> n, description |-> p.description,
      inputSchema |-> p.inputSchema, handler |-> h]
     : n \in Names, p \in Presentations, h \in Handlers}

RequestNames == {"t1", "t2", "nope"}
RequestArgs == {JsUndefined, [type |-> "object"]}

NoCall == [op |-> "none"]

\* process.env and the disk once the configuration is loaded
EnvVars == {"MCP_SERVER_NAME", "MCP_VERSION", "MCP_DEBUG", "MCP_DATA_DIR",
            "MCP_OUTPUT_DIR", "MCP_MAX_FILE_SIZE", "MCP_TIMEOUT"}
NoEnv == [v \in EnvVars |-> JsUndefined]
NoDisk == [config |-> [kind |-> "none"], dirs |-> {}]

\* the two requests whose handlers may be in flight together
Slots == {"first", "second"}
Idle == [pc |-> "idle"]
NoneInFlight == [s \in Slots |-> Idle]

NoDir == [exists |-> FALSE]

NoConfig == [serverName |-> undefined, dataDir |-> undefined,
             customToolsDir |-> undefined]

\* the registration before the last call, kept when both are registrations
\* that succeeded one after the other
PrevOf(l) ==
    IF l.op = "registerTool" /\ l.outcome.kind = "return"
    THEN [op |-> "registerTool", tool |-> l.tool, before |-> l.before]
    ELSE NoCall

\* constructor()
InitRegistry ==
    /\ tools = <<>>
    /\ CONFIG = NoConfig
    /\ config = NoConfig
    /\ pc = "registry"
    /\ connected = FALSE
    /\ dir = NoDir
    /\ toolFiles = <<>>
    /\ diagnostics = <<>>
    /\ initCount = 0
    /\ doc = DocAbsent
    /\ now = 1
    /\ last = NoCall
    /\ prev = NoCall
    /\ inflight = NoneInFlight
    /\ env = NoEnv
    /\ disk = NoDisk

RegisterTool(tool) ==
    /\ pc = "registry"
    /\ LET r == registerTool(tools, tool)
       IN /\ tools' = r.tools
          /\ last' = [op |-> "registerTool", tool |-> tool,
                      outcome |-> r.outcome, before |-> tools]
    /\ prev' = PrevOf(last)
    /\ UNCHANGED <<env, disk, inflight, CONFIG, config, pc, connected, dir, toolFiles, diagnostics,
                   initCount, doc, now>>

GetTools ==
    /\ pc = "registry"
    /\ last' = [op |-> "getTools", outcome |-> Return(getTools(tools)),
                before |-> tools]
    /\ prev' = NoCall
    /\ UNCHANGED <<env, disk, inflight, tools, CONFIG, config, pc, connected, dir, toolFiles, diagnostics,
                   initCount, doc, now>>

HasTool(name) ==
    /\ pc = "registry"
    /\ last' = [op |-> "hasTool", name |-> name,
                outcome |-> Return(hasTool(tools, name)), before |-> tools]
    /\ prev' = NoCall
    /\ UNCHANGED <<env, disk, inflight, tools, CONFIG, config, pc, connected, dir, toolFiles, diagnostics,
                   initCount, doc, now>>

ExecuteTool(name, args) ==
    /\ pc = "registry"
    /\ \E r \in executeTool(tools, name, args, doc, config, now) :
          /\ last' = [op |-> "executeTool", name |-> name, args |-> args,
                      outcome |-> r.outcome, raw |-> r.raw,
                      invoked |-> r.invoked, before |-> tools,
                      docBefore |-> doc, wrote |-> r.wrote]
          /\ doc' = r.doc
          /\ tools' = r.tools
    /\ prev' = NoCall
    /\ UNCHANGED <<env, disk, inflight, CONFIG, config, pc, connected, dir, toolFiles, diagnostics,
                   initCount, now>>

NextRegistry ==
    \/ \E tool \in Descriptors : RegisterTool(tool)
    \/ GetTools
    \/ \E name \in RequestNames : HasTool(name)
    \/ \E name \in RequestNames, args \in RequestArgs : ExecuteTool(name, args)

SpecRegistry == InitRegistry /\ [][NextRegistry]_vars

----------------------------------------------------------------------------
(* Properties of the registry and of dispatch *)

ValidTool(tool) == ~Falsy(tool.name) /\ ~Falsy(tool.handler)

\* the message a failure carries, when it has one
HasMessage(e) ==
    e.type \in ErrorTypes \/ (e.type = "object" /\ "message" \in DOMAIN e)

\* an ExecutionFailed failure for `name`: an Error whose message names the
\* operation and ends with `original`
IsExecutionFailed(e, name, original) ==
    /\ e.type = "Error"
    /\ Len(e.message) >= 3
    /\ e.message[1] = "Tool '"
    /\ e.message[2] = name
    /\ e.message[3] = "' execution failed: "
    /\ original # <<>> => SubSeq(e.message, 4, Len(e.message)) = original

\* C1: when the resolved handler fails, whatever it throws, executeTool
\* yields one ExecutionFailed failure that carries the operation name and
\* the original failure's message.
C1_HandlerFailureNormalized ==
    (last.op = "executeTool" /\ last.raw.kind = "throw") =>
        /\ last.outcome.kind = "throw"
        /\ IsExecutionFailed(last.outcome.error, last.name,
                             IF HasMessage(last.raw.error)
                             THEN last.raw.error.message ELSE <<>>)

NotFound(name) == Throw(Error(<<"Tool '", name, "' not found">>))

\* C2: executeTool of a name that is not a key of the registry fails with
\* NotFound and invokes no handler.
C2_UnknownNameNotFound ==
    (last.op = "executeTool" /\ ~MapHas(last.before, last.name)) =>
        /\ last.outcome = NotFound(last.name)
        /\ last.invoked = <<>>
        /\ tools = last.before

C2_Witness ==
    /\ last.op = "executeTool"
    /\ ~MapHas(last.before, last.name)
    /\ Len(last.before) = 2

\* C6 as stated: after registerTool(d) of a valid d, the entry under d.name
\* has the name, description, inputSchema and handler of d.
C6_LookupReturnsDescriptor ==
    (last.op = "registerTool" /\ ValidTool(last.tool)) =>
        /\ MapHas(tools, last.tool.name)
        /\ MapGet(tools, last.tool.name) = last.tool

\* C6 amended: after registerTool(d) of a valid d, the entry under d.name has
\* the name and handler of d, the description of d when d has a non-empty
\* one and '' otherwise, and the inputSchema of d when d has one and the
\* empty object schema otherwise.
C6_LookupReturnsNormalized ==
    (last.op = "registerTool" /\ ValidTool(last.tool)) =>
        /\ last.outcome.kind = "return"
        /\ MapHas(tools, last.tool.name)
        /\ LET d == last.tool
               e == MapGet(tools, last.tool.name)
           IN /\ e.name = d.name
              /\ e.handler = d.handler
              /\ d.description \notin {undefined, ""} => e.description = d.description
              /\ d.description \in {undefined, ""} => e.description = ""
              /\ d.inputSchema # undefined => e.inputSchema = d.inputSchema
              /\ d.inputSchema = undefined => e.inputSchema = DefaultSchema

C6_Witness ==
    /\ last.op = "registerTool"
    /\ ValidTool(last.tool)
    /\ last.tool.description = undefined
    /\ last.tool.inputSchema = undefined
    /\ MapHas(tools, last.tool.name)

\* two registrations that succeeded one after the other under one name
SameNamePair ==
    /\ last.op = "registerTool"
    /\ last.outcome.kind = "return"
    /\ prev.op = "registerTool"
    /\ prev.tool.name = last.tool.name

EntriesNamed(n) ==
    {i \in 1..Len(getTools(tools)) : getTools(tools)[i].name = n}

OthersUnchanged(before, after, n) ==
    \A k \in (MapKeys(before) \cup MapKeys(after)) \ {n} :
        /\ MapHas(before, k)
        /\ MapHas(after, k)
        /\ MapGet(before, k) = MapGet(after, k)

\* C7 as stated: after registerTool(d1) and registerTool(d2) under one name,
\* getTools has one entry of that name with the description and inputSchema
\* of d2, the registry has grown by one, and the other entries are unchanged.
C7_SecondReplacesFirst ==
    SameNamePair =>
        /\ Cardinality(EntriesNamed(last.tool.name)) = 1
        /\ \A i \in EntriesNamed(last.tool.name) :
              /\ getTools(tools)[i].description = last.tool.description
              /\ getTools(tools)[i].inputSchema = last.tool.inputSchema
        /\ Len(tools) = Len(prev.before) + 1
        /\ OthersUnchanged(prev.before, tools, last.tool.name)

\* C7 amended: getTools has one entry of that name; its description and
\* inputSchema are those of d2 where d2 has them (non-empty) and the
\* defaults otherwise; the registry has grown by one when the name was not
\* registered before the two calls and not at all when it was; the other
\* entries are unchanged.
C7_SecondReplacesFirstNormalized ==
    SameNamePair =>
        /\ Cardinality(EntriesNamed(last.tool.name)) = 1
        /\ \A i \in EntriesNamed(last.tool.name) :
              LET d == last.tool
                  e == getTools(tools)[i]
              IN /\ d.description \notin {undefined, ""} => e.description = d.description
                 /\ d.description \in {undefined, ""} => e.description = ""
                 /\ d.inputSchema # undefined => e.inputSchema = d.inputSchema
                 /\ d.inputSchema = undefined => e.inputSchema = DefaultSchema
        /\ MapHas(prev.before, last.tool.name) => Len(tools) = Len(prev.before)
        /\ ~MapHas(prev.before, last.tool.name) => Len(tools) = Len(prev.before) + 1
        /\ OthersUnchanged(prev.before, tools, last.tool.name)

C7_Witness ==
    /\ SameNamePair
    /\ prev.tool.description # last.tool.description
    /\ prev.tool.inputSchema # last.tool.inputSchema
    /\ ~MapHas(prev.before, last.tool.name)
    /\ Len(tools) = 2

\* C8: registerTool of a descriptor without a name or without a handler
\* fails and leaves the registry as it was.
C8_InvalidDescriptorRejected ==
    (last.op = "registerTool" /\ ~ValidTool(last.tool)) =>
        /\ last.outcome.kind = "throw"
        /\ last.outcome.error = Error(<<"Tool must have a name and handler">>)
        /\ tools = last.before

C8_Witness ==
    /\ last.op = "registerTool"
    /\ ~Falsy(last.tool.name)
    /\ Falsy(last.tool.handler)
    /\ MapHas(last.before, last.tool.name)
    /\ last.outcome.kind = "throw"

AllNames == Names \cup RequestNames

\* executeTool finds a descriptor under the name
Resolves(m, name) ==
    \A r \in executeTool(m, name, JsUndefined, doc, config, now) :
        r.outcome # NotFound(name)

\* C9: the names getTools lists, the names hasTool accepts and the names
\* executeTool resolves are the same; every entry has a non-empty name, is
\* stored under its name, and is listed without its handler.
C9_EnumerationMatchesLookup ==
    /\ \A n \in AllNames :
          /\ hasTool(tools, n) <=> (EntriesNamed(n) # {})
          /\ hasTool(tools, n) <=> Resolves(tools, n)
    /\ \A i \in 1..Len(tools) :
          /\ ~Falsy(tools[i].value.name)
          /\ tools[i].key = tools[i].value.name
    /\ Len(getTools(tools)) = Len(tools)
    /\ \A i \in 1..Len(getTools(tools)) :
          /\ DOMAIN getTools(tools)[i] = {"name", "description", "inputSchema"}
          /\ getTools(tools)[i].name = tools[i].key

C9_Witness ==
    /\ Len(tools) = 2
    /\ last.op = "registerTool"
    /\ last.outcome.kind = "throw"

----------------------------------------------------------------------------
(* Startup: main(), initialize(), loadBuiltInTools(), loadCustomTools() *)

\* the files of the custom tools directory: tool1.js, tool2.js, ... and one
\* file that is not JavaScript
JsFile(i) == [n |-> i, ext |-> ".js"]
JsFiles == {JsFile(i) : i \in 1..NumFiles}
OtherFile == [n |-> 0, ext |-> ".md"]
DirFiles == JsFiles \cup {OtherFile}

\* f.endsWith('.js')
endsWithJs(f) == f.ext = ".js"

\* file names compared as strings
Alphabetical(f, g) == f.n < g.n

\* what importing a file gives: a rejection, a module without a default
\* export, or a module whose default export has the given name and, when
\* hasHandler, a handler
Modules ==
    {[kind |-> "importThrows"], [kind |-> "noDefault"],
     [kind |-> "default", name |-> undefined, hasHandler |-> TRUE],
     [kind |-> "default", name |-> "custom_tool", hasHandler |-> FALSE],
     [kind |-> "default", name |-> "custom_tool", hasHandler |-> TRUE],
     [kind |-> "default", name |-> "get_status", hasHandler |-> TRUE]}

\* the handler exported by file f
FileHandler(f) == "custom:" \o ToString(f.n)

\* the description given in file f
FileDescription(f) == "tool " \o ToString(f.n)

\* tool.default of the module in file f
DefaultExport(f, mod) ==
    [name |-> mod.name,
     description |-> FileDescription(f),
     inputSchema |-> undefined,
     handler |-> IF mod.hasHandler THEN FileHandler(f) ELSE undefined]

\* the descriptor loadBuiltInTools registers under the i-th built-in name
BuiltInTool(i) ==
    [name |-> BuiltInNames[i],
     description |-> "description of " \o BuiltInNames[i],
     inputSchema |-> "schema of " \o BuiltInNames[i],
     handler |-> BuiltInHandler(BuiltInNames[i])]

\* loadBuiltInTools(): five registerTool calls in the order of the source
RECURSIVE registerBuiltIns(_, _)
registerBuiltIns(m, i) ==
    IF i > Len(BuiltInNames) THEN m
    ELSE registerBuiltIns(registerTool(m, BuiltInTool(i)).tools, i + 1)

loadBuiltInTools(m) == registerBuiltIns(m, 1)

\* the orders in which fs.readdir may list a set of files
Listings(S) ==
    {l \in [1..Cardinality(S) -> S] : \A i, j \in 1..Cardinality(S) :
                                          i # j => l[i] # l[j]}

Configs ==
    {[serverName |-> "mcp-server", dataDir |-> "./data", customToolsDir |-> c]
     : c \in {undefined, "./custom-tools"}}

Dirs ==
    {NoDir} \cup {[exists |-> TRUE, files |-> fs] : fs \in [DirFiles -> Modules]}

\* the process starts, over any custom tools directory
InitStartup ==
    /\ tools = <<>>
    /\ CONFIG \in Configs
    /\ config = NoConfig
    /\ pc = "start"
    /\ connected = FALSE
    /\ dir \in Dirs
    /\ (Falsy(CONFIG.customToolsDir) => dir = NoDir)
    /\ (dir.exists => dir.files[OtherFile] = [kind |-> "noDefault"])
    /\ toolFiles = <<>>
    /\ diagnostics = <<>>
    /\ initCount = 0
    /\ doc = DocAbsent
    /\ now = 1
    /\ last = NoCall
    /\ prev = NoCall
    /\ inflight = NoneInFlight
    /\ env = NoEnv
    /\ disk = NoDisk

\* the process starts where there is no custom tools directory
Init == InitStartup /\ dir = NoDir

\* loadCustomTools rejecting when the directory is missing
loadCustomTools_strict(toolsDir, d, lines) ==
    IF ~d.exists
    THEN [pc |-> "failed", diagnostics |-> lines]
    ELSE [pc |-> "readdir", diagnostics |-> lines]

\* loadCustomTools(toolsDir) up to its readdir: where initialize() stands
\* after it and the lines written; a missing directory ends the load
loadCustomTools(toolsDir, d, lines) ==
    IF ~d.exists
    THEN [pc |-> "initialized",
          diagnostics |-> Append(lines,
                                 [line |-> "Custom tools directory not found",
                                  file |-> toolsDir])]
    ELSE [pc |-> "readdir", diagnostics |-> lines]

\* main() calls toolRegistry.initialize(CONFIG): the built-ins are
\* registered, and loadCustomTools runs up to its readdir
Initialize ==
    /\ pc = "start"
    /\ config' = CONFIG
    /\ initCount' = initCount + 1
    /\ tools' = loadBuiltInTools(tools)
    /\ IF Falsy(CONFIG.customToolsDir)
       THEN pc' = "initialized" /\ UNCHANGED diagnostics
       ELSE LET r == loadCustomTools(CONFIG.customToolsDir, dir, diagnostics)
            IN pc' = r.pc /\ diagnostics' = r.diagnostics
    /\ UNCHANGED <<env, disk, inflight, CONFIG, connected, dir, toolFiles, doc, now,
                   last, prev>>

\* await fs.readdir(absolutePath), then the filter on the extension
ReadDir ==
    /\ pc = "readdir"
    /\ \E files \in Listings(DOMAIN dir.files) :
          toolFiles' = SelectSeq(files, endsWithJs)
    /\ pc' = IF toolFiles' = <<>> THEN "initialized" ELSE "loading"
    /\ UNCHANGED <<env, disk, inflight, tools, CONFIG, config, connected, dir, diagnostics,
                   initCount, doc, now, last, prev>>

Failed(file, msg) ==
    [line |-> "Failed to load custom tool", file |-> file, message |-> msg]

Loaded(file) == [line |-> "Loaded custom tool from", file |-> file]

\* one turn of the loop of loadCustomTools, for the next file of toolFiles
LoadFile ==
    /\ pc = "loading"
    /\ LET file == Head(toolFiles)
           tool == dir.files[file]
       IN CASE tool.kind = "importThrows" ->
                 /\ diagnostics' = Append(diagnostics,
                        Failed(file, <<"Unexpected token">>))
                 /\ UNCHANGED tools
            [] tool.kind = "noDefault" ->
                 UNCHANGED <<tools, diagnostics>>
            [] tool.kind = "default" ->
                 LET r == registerTool(tools, DefaultExport(file, tool))
                 IN /\ tools' = r.tools
                    /\ diagnostics' = Append(diagnostics,
                           IF r.outcome.kind = "return" THEN Loaded(file)
                           ELSE Failed(file, r.outcome.error.message))
    /\ toolFiles' = Tail(toolFiles)
    /\ pc' = IF toolFiles' = <<>> THEN "initialized" ELSE "loading"
    /\ UNCHANGED <<env, disk, inflight, CONFIG, config, connected, dir, initCount, doc, now,
                   last, prev>>

\* a main() that does not wait for initialize before it connects
main_connectsAtOnce == pc \in {"start", "readdir", "loading", "initialized"}

\* main() connects the transport once initialize has completed
main_awaitsInitialize == pc = "initialized"

Connect ==
    /\ main_awaitsInitialize
    /\ ~connected
    /\ connected' = TRUE
    /\ UNCHANGED <<env, disk, inflight, tools, CONFIG, config, pc, dir, toolFiles, diagnostics,
                   initCount, doc, now, last, prev>>

----------------------------------------------------------------------------
(* Requests *)

InternalError == -32603

\* JSON.stringify(result, null, 2) unless the result is a string
ResultText(result) ==
    CASE result.type = "string" -> result.text
      [] result.type = "undefined" -> <<undefined>>
      [] OTHER -> <<"JSON", result>>

\* the CallTool request handler around one result of executeTool
CallToolResponse(name, r) ==
    IF r.outcome.kind = "return"
    THEN [kind |-> "result",
          content |-> <<[type |-> "text", text |-> ResultText(r.outcome.value)]>>]
    ELSE LET msg == ReadMessage(r.outcome.error)
         IN IF msg.kind = "throw"
            THEN [kind |-> "error", code |-> InternalError,
                  message |-> msg.error.message]
            ELSE [kind |-> "error", code |-> InternalError,
                  message |-> <<"Tool execution failed: ">> \o msg.value]

\* the names called where the built-ins are the registry
ToolNames == {BuiltInNames[i] : i \in 1..Len(BuiltInNames)} \cup {"nope"}

\* the names called after a load of custom tools
StartupNames == {"custom_tool", "get_status", "nope"}

Obj == [type |-> "object"]

\* the arguments the model sends with a call of `name`
\* the limits and the queries the requests of the model carry
Limits == {-1, 0, 1}
Queries == {<<>>, <<"a">>, <<"B">>, <<"c", "b">>, <<"x">>}

ArgsFor(name) ==
    CASE name = "list_items" ->
             {JsUndefined, Obj,
              [type |-> "object", filter |-> JsString(<<"a">>)],
              [type |-> "object", filter |-> JsString(<<"a">>),
               limit |-> JsNumber(1)]}
             \cup {[type |-> "object", limit |-> JsNumber(n)] : n \in Limits}
      [] name = "add_item" ->
             {JsUndefined,
              [type |-> "object", name |-> JsString(<<"A">>),
               description |-> JsString(<<"b">>)],
              [type |-> "object", name |-> JsString(<<"c", "B">>)]}
      [] name = "remove_item" ->
             {JsUndefined} \cup
             {[type |-> "object", id |-> IdOf(t)] : t \in 1..MaxClock}
      [] name = "search_items" ->
             {Obj} \cup {[type |-> "object", query |-> JsString(q)]
                         : q \in Queries}
      [] name = "get_status" -> {JsUndefined}
      [] OTHER -> {Obj}

\* the document has room for what the call may add
Room(name) == name = "add_item" => (doc.exists => Len(doc.items) < MaxItems)

\* the request handled before the one in last, kept when it listed or
\* added items
PrevCall(l) ==
    IF l.op = "CallTool" /\ l.name \in {"list_items", "add_item"}
    THEN [op |-> "CallTool", name |-> l.name, args |-> l.args,
          outcome |-> l.outcome, docBefore |-> l.docBefore]
    ELSE NoCall

ListTools ==
    /\ connected
    /\ last' = [op |-> "ListTools", before |-> tools,
                response |-> [kind |-> "result", tools |-> getTools(tools)]]
    /\ UNCHANGED <<env, disk, inflight, tools, CONFIG, config, pc, connected, dir, toolFiles,
                   diagnostics, initCount, doc, now, prev>>

CallTool(name, args) ==
    /\ connected
    /\ Room(name)
    /\ \E r \in executeTool(tools, name, args, doc, config, now) :
          /\ last' = [op |-> "CallTool", name |-> name, args |-> args,
                      outcome |-> r.outcome, raw |-> r.raw,
                      invoked |-> r.invoked, before |-> tools,
                      docBefore |-> doc, wrote |-> r.wrote,
                      response |-> CallToolResponse(name, r)]
          /\ doc' = r.doc
          /\ tools' = r.tools
    /\ prev' = PrevCall(last)
    /\ UNCHANGED <<env, disk, inflight, CONFIG, config, pc, connected, dir, toolFiles,
                   diagnostics, initCount, now>>

\* time passes
Tick ==
    /\ connected
    /\ now < MaxClock
    /\ now' = now + 1
    /\ UNCHANGED <<env, disk, inflight, tools, CONFIG, config, pc, connected, dir, toolFiles,
                   diagnostics, initCount, doc, last, prev>>

\* the SIGINT handler main() installs after connecting: the server closes
\* and the process ends, and with it everything the process held in memory
Shutdown ==
    /\ connected
    /\ connected' = FALSE
    /\ pc' = "exited"
    /\ tools' = <<>>
    /\ config' = NoConfig
    /\ last' = NoCall
    /\ prev' = NoCall
    /\ UNCHANGED <<env, disk, inflight, CONFIG, dir, toolFiles, diagnostics, initCount, doc, now>>

\* the server with its built-in tools, and the calls of them
Next ==
    \/ Initialize
    \/ Connect
    \/ ListTools
    \/ \E name \in ToolNames : \E args \in ArgsFor(name) : CallTool(name, args)
    \/ Tick
    \/ Shutdown

Spec == Init /\ [][Next]_vars

\* the server over a custom tools directory, and the calls that leave the
\* document alone
NextStartup ==
    \/ Initialize
    \/ ReadDir
    \/ LoadFile
    \/ Connect
    \/ ListTools
    \/ \E name \in StartupNames : \E args \in ArgsFor(name) : CallTool(name, args)
    \/ Shutdown

SpecStartup == InitStartup /\ [][NextStartup]_vars

\* a write that keeps the items another call stored meanwhile
writeJsonFile_merge(current, data) ==
    IF current.exists
    THEN DocOf(current.items \o
               SelectSeq(data.items,
                         LAMBDA x : \A i \in 1..Len(current.items) :
                                       current.items[i] # x))
    ELSE data

\* await fs.writeJson(dataFile, data): the file holds data, whatever it held
writeJsonFile(current, data) == data

\* the arguments of the calls that may be in flight together
InFlightArgs(name) ==
    CASE name = "add_item" ->
             {[type |-> "object", name |-> JsString(<<"A">>),
               description |-> JsString(<<"b">>)]}
      [] name = "remove_item" ->
             {[type |-> "object", id |-> IdOf(t)] : t \in 1..MaxClock}

Other(s) == CHOOSE o \in Slots : o # s

\* the handler from the read of the document (or from its start, when it
\* has nothing to await) to its next await or its end: executeTool's try
\* around it turns what it throws into the failure of the call
Resume(s, name, args) ==
    \E r \in executeTool(tools, name, args, doc, config, now) :
        inflight' =
            [inflight EXCEPT ![s] =
                [pc |-> IF r.wrote THEN "writing" ELSE "done",
                 name |-> name, args |-> args, at |-> now,
                 snapshot |-> doc, data |-> r.doc, outcome |-> r.outcome,
                 readAfterOther |-> inflight[Other(s)].pc = "done"
                                    /\ inflight[Other(s)].data
                                        # inflight[Other(s)].snapshot]]

\* a CallTool request arrives and its handler runs to its first await:
\* with a document on disk that is the readJson of it; without one add_item
\* goes on to its writeJson and remove_item throws
StartCall(s, name, args) ==
    /\ connected
    /\ inflight[s].pc = "idle"
    /\ IF doc.exists
       THEN inflight' = [inflight EXCEPT ![s] =
                            [pc |-> "reading", name |-> name, args |-> args]]
       ELSE Resume(s, name, args)
    /\ UNCHANGED <<env, disk, tools, CONFIG, config, pc, connected, dir, toolFiles,
                   diagnostics, initCount, doc, now, last, prev>>

\* readJson resolves and the handler goes on with what the file holds now
ReadDone(s) ==
    /\ inflight[s].pc = "reading"
    /\ Resume(s, inflight[s].name, inflight[s].args)
    /\ UNCHANGED <<env, disk, tools, CONFIG, config, pc, connected, dir, toolFiles,
                   diagnostics, initCount, doc, now, last, prev>>

\* writeJson resolves and the handler returns
WriteDone(s) ==
    /\ inflight[s].pc = "writing"
    /\ doc' = writeJsonFile(doc, inflight[s].data)
    /\ inflight' = [inflight EXCEPT ![s].pc = "done"]
    /\ UNCHANGED <<env, disk, tools, CONFIG, config, pc, connected, dir, toolFiles,
                   diagnostics, initCount, now, last, prev>>

\* the server connected, with no document or with one item added earlier
InitInFlight ==
    /\ CONFIG \in Configs
    /\ Falsy(CONFIG.customToolsDir)
    /\ config = CONFIG
    /\ tools = loadBuiltInTools(<<>>)
    /\ pc = "initialized"
    /\ connected = TRUE
    /\ dir = NoDir
    /\ toolFiles = <<>>
    /\ diagnostics = <<>>
    /\ initCount = 1
    /\ now = 1
    /\ doc \in {DocAbsent} \cup
               {add_item(a, DocAbsent, 1).doc : a \in InFlightArgs("add_item")}
    /\ last = NoCall
    /\ prev = NoCall
    /\ inflight = NoneInFlight
    /\ env = NoEnv
    /\ disk = NoDisk

\* two requests handled together: each handler runs between its awaits, and
\* nothing orders the steps of one against the steps of the other
NextInFlight ==
    \/ \E s \in Slots : \E name \in {"add_item", "remove_item"} :
          \E args \in InFlightArgs(name) : StartCall(s, name, args)
    \/ \E s \in Slots : ReadDone(s)
    \/ \E s \in Slots : WriteDone(s)
    \/ Tick

SpecInFlight == InitInFlight /\ [][NextInFlight]_vars

----------------------------------------------------------------------------
(* The configuration loader: loadConfig() and what it calls *)

JsBoolean(b) == [type |-> "boolean", val |-> b]
NaN == [type |-> "number", nan |-> TRUE]
IsNaN(v) == "nan" \in DOMAIN v

\* an object of the configuration: its own properties by name
ConfigObject(props) == [type |-> "object", props |-> props]

\* getDefaults()
getDefaults ==
    ConfigObject(
        [serverName |-> JsString(<<"mcp-server">>),
         version |-> JsString(<<"1.0.0">>),
         debug |-> JsBoolean(FALSE),
         dataDir |-> JsString(<<"./data">>),
         outputDir |-> JsString(<<"./output">>),
         maxFileSize |-> JsNumber(10 * 1024 * 1024),
         timeout |-> JsNumber(30000),
         tools |-> ConfigObject(
                       [enabled |-> JsBoolean(TRUE),
                        customToolsDir |-> JsString(<<"./custom-tools">>)])])

\* envMapping of loadEnvironmentVariables, in its order
envMapping ==
    <<[envVar |-> "MCP_SERVER_NAME", configKey |-> "serverName"],
      [envVar |-> "MCP_VERSION", configKey |-> "version"],
      [envVar |-> "MCP_DEBUG", configKey |-> "debug"],
      [envVar |-> "MCP_DATA_DIR", configKey |-> "dataDir"],
      [envVar |-> "MCP_OUTPUT_DIR", configKey |-> "outputDir"],
      [envVar |-> "MCP_MAX_FILE_SIZE", configKey |-> "maxFileSize"],
      [envVar |-> "MCP_TIMEOUT", configKey |-> "timeout"]>>

\* the value of a decimal digit, -1 for any other character
Digit(c) ==
    CASE c = "0" -> 0 [] c = "1" -> 1 [] c = "2" -> 2 [] c = "3" -> 3
      [] c = "4" -> 4 [] c = "5" -> 5 [] c = "6" -> 6 [] c = "7" -> 7
      [] c = "8" -> 8 [] c = "9" -> 9 [] OTHER -> -1

\* a text without the spaces at its ends
RECURSIVE trim(_)
trim(t) ==
    IF t = <<>> THEN t
    ELSE IF Head(t) = " " THEN trim(Tail(t))
    ELSE IF t[Len(t)] = " " THEN trim(SubSeq(t, 1, Len(t) - 1))
    ELSE t

\* the number a non-empty run of decimal digits writes, -1 if t is not one
RECURSIVE Decimal(_)
Decimal(t) ==
    IF t = <<>> THEN -1
    ELSE LET d == Digit(t[Len(t)])
         IN IF d < 0 THEN -1
            ELSE IF Len(t) = 1 THEN d
            ELSE LET rest == Decimal(SubSeq(t, 1, Len(t) - 1))
                 IN IF rest < 0 THEN -1 ELSE 10 * rest + d

\* Number(text), for texts of spaces, a sign and decimal digits: the empty
\* and the blank text are 0, and a text that writes no number is NaN
StringToNumber(text) ==
    LET t == trim(text)
    IN IF t = <<>> THEN JsNumber(0)
       ELSE IF Head(t) \in {"-", "+"}
       THEN LET n == Decimal(Tail(t))
            IN IF n < 0 THEN NaN
               ELSE JsNumber(IF Head(t) = "-" THEN 0 - n ELSE n)
       ELSE LET n == Decimal(t)
            IN IF n < 0 THEN NaN ELSE JsNumber(n)

\* ToNumber(v), as isNaN and the comparison with 0 convert their operand
ToNumber(v) ==
    CASE v.type = "number" -> v
      [] v.type = "string" -> StringToNumber(v.text)
      [] v.type = "boolean" -> JsNumber(IF v.val THEN 1 ELSE 0)
      [] v.type = "null" -> JsNumber(0)
      [] OTHER -> NaN

\* parseValue(value), value a string of process.env
parseValue(value) ==
    IF value = <<"t", "r", "u", "e">> THEN JsBoolean(TRUE)
    ELSE IF value = <<"f", "a", "l", "s", "e">> THEN JsBoolean(FALSE)
    ELSE IF ~IsNaN(StringToNumber(value)) THEN StringToNumber(value)
    ELSE JsString(value)

\* isObject(item)
isObject(item) == item.type = "object"

\* Object.assign({}, target): the own properties of target, which for a
\* string are its characters by index and for other primitives are none
AssignFrom(target) ==
    CASE target.type = "object" -> target.props
      [] target.type = "string" ->
             [i \in {ToString(k - 1) : k \in 1..Len(target.text)} |->
                 JsString(<<target.text[CHOOSE k \in 1..Len(target.text) :
                                            ToString(k - 1) = i]>>)]
      [] OTHER -> <<>>

\* deepMerge(target, source)
RECURSIVE deepMerge(_, _)
deepMerge(target, source) ==
    LET output == AssignFrom(target)
    IN IF isObject(target) /\ isObject(source)
       THEN ConfigObject(
                [key \in DOMAIN output \cup DOMAIN source.props |->
                    IF key \notin DOMAIN source.props THEN output[key]
                    ELSE IF isObject(source.props[key])
                            /\ key \in DOMAIN target.props
                    THEN deepMerge(target.props[key], source.props[key])
                    ELSE source.props[key]])
       ELSE ConfigObject(output)

\* loadConfigFile(filePath): the configuration and the line written
loadConfigFile(cfg, file) ==
    IF file.kind = "json"
    THEN [config |-> deepMerge(cfg, file.value),
          lines |-> <<[line |-> "Loaded configuration from"]>>]
    ELSE [config |-> cfg,
          lines |-> <<[line |-> "Failed to load config file"]>>]

\* setNestedValue(obj, path, value) for a path of one key
setNestedValue(obj, key, value) ==
    ConfigObject([k \in DOMAIN obj.props \cup {key} |->
                     IF k = key THEN value ELSE obj.props[k]])

\* loadEnvironmentVariables(): the loop over envMapping from entry i on
RECURSIVE applyEnv(_, _, _)
applyEnv(cfg, e, i) ==
    IF i > Len(envMapping) THEN cfg
    ELSE LET m == envMapping[i]
         IN applyEnv(IF Truthy(e[m.envVar])
                     THEN setNestedValue(cfg, m.configKey,
                                         parseValue(e[m.envVar].text))
                     ELSE cfg,
                     e, i + 1)

loadEnvironmentVariables(cfg, e) == applyEnv(cfg, e, 1)

\* this.config.maxFileSize <= 0
AtMostZero(v) ==
    LET n == ToNumber(v)
    IN ~IsNaN(n) /\ n.num <= 0

\* one turn of the loop of validateConfig: fs.ensureDirSync(dir) when
\* fs.existsSync(dir) is false, which is so for any dir that is no string
ensureDir(path, st) ==
    IF ~st.ok \/ path \in st.dirs THEN st
    ELSE IF path.type # "string" THEN [ok |-> FALSE, dirs |-> st.dirs]
    ELSE [ok |-> TRUE, dirs |-> st.dirs \cup {path}]

\* validateConfig(): what it throws or returns, and the directories after it
validateConfig(cfg, dirs) ==
    LET made == ensureDir(Prop(cfg.props, "outputDir"),
                          ensureDir(Prop(cfg.props, "dataDir"),
                                    [ok |-> TRUE, dirs |-> dirs]))
    IN IF ~made.ok
       THEN [outcome |-> Throw(TypeError(<<"The \"path\" argument must be of ",
                                           "type string">>)),
             dirs |-> made.dirs]
       ELSE IF AtMostZero(Prop(cfg.props, "maxFileSize"))
       THEN [outcome |-> Throw(Error(<<"maxFileSize must be positive">>)),
             dirs |-> made.dirs]
       ELSE IF AtMostZero(Prop(cfg.props, "timeout"))
       THEN [outcome |-> Throw(Error(<<"timeout must be positive">>)),
             dirs |-> made.dirs]
       ELSE [outcome |-> Return(JsUndefined), dirs |-> made.dirs]

\* loadConfig with the environment read before the file
loadConfig_envFirst(e, d) ==
    LET fromEnv == loadEnvironmentVariables(getDefaults, e)
        loaded == IF d.config.kind = "none"
                  THEN [config |-> fromEnv, lines |-> <<>>]
                  ELSE loadConfigFile(fromEnv, d.config)
        checked == validateConfig(loaded.config, d.dirs)
    IN [outcome |-> IF checked.outcome.kind = "throw" THEN checked.outcome
                    ELSE Return(loaded.config),
        config |-> loaded.config,
        dirs |-> checked.dirs,
        lines |-> loaded.lines]

\* loadConfig() over environment e and disk d: what it returns or throws,
\* this.config, the directories afterwards and the lines written
loadConfig(e, d) ==
    LET loaded == IF d.config.kind = "none"
                  THEN [config |-> getDefaults, lines |-> <<>>]
                  ELSE loadConfigFile(getDefaults, d.config)
        merged == loadEnvironmentVariables(loaded.config, e)
        checked == validateConfig(merged, d.dirs)
    IN [outcome |-> IF checked.outcome.kind = "throw" THEN checked.outcome
                    ELSE Return(merged),
        config |-> merged,
        dirs |-> checked.dirs,
        lines |-> loaded.lines]

\* the strings the MCP_ variables of the model hold; JsUndefined is unset
EnvValues(envVar) ==
    CASE envVar = "MCP_SERVER_NAME" ->
             {JsUndefined, JsString(<<>>), JsString(<<"s", "r", "v">>)}
      [] envVar = "MCP_DEBUG" ->
             {JsUndefined, JsString(<<"t", "r", "u", "e">>)}
      [] envVar = "MCP_DATA_DIR" ->
             {JsUndefined, JsString(<<"/", "d">>), JsString(<<"5">>)}
      [] envVar = "MCP_MAX_FILE_SIZE" ->
             {JsUndefined, JsString(<<>>), JsString(<<"0">>),
              JsString(<<"-", "1">>), JsString(<<"1", "0">>),
              JsString(<<"a", "b", "c">>), JsString(<<"t", "r", "u", "e">>)}
      [] envVar = "MCP_TIMEOUT" ->
             {JsUndefined, JsString(<<" ">>), JsString(<<"7">>),
              JsString(<<"f", "a", "l", "s", "e">>)}
      [] OTHER -> {JsUndefined}

Environments ==
    {[v \in EnvVars |->
         CASE v = "MCP_SERVER_NAME" -> a
           [] v = "MCP_DEBUG" -> b
           [] v = "MCP_DATA_DIR" -> c
           [] v = "MCP_MAX_FILE_SIZE" -> d
           [] v = "MCP_TIMEOUT" -> e
           [] OTHER -> JsUndefined] :
        a \in EnvValues("MCP_SERVER_NAME"), b \in EnvValues("MCP_DEBUG"),
        c \in EnvValues("MCP_DATA_DIR"), d \in EnvValues("MCP_MAX_FILE_SIZE"),
        e \in EnvValues("MCP_TIMEOUT")}

\* what the configuration file of the model may give for a key; NotThere
\* stands for a key the file leaves out
NotThere == [type |-> "absent"]
FileValues(key) ==
    CASE key = "serverName" -> {NotThere, JsString(<<"f", "i", "l", "e">>)}
      [] key = "maxFileSize" ->
             {NotThere, JsNumber(5), JsNumber(0), JsNull,
              JsString(<<"b", "i", "g">>)}
      [] key = "timeout" -> {NotThere, JsNumber(9)}
      [] key = "tools" ->
             {NotThere,
              ConfigObject([enabled |-> JsBoolean(FALSE)]),
              ConfigObject([customToolsDir |-> JsString(<<"/", "t">>),
                            extra |-> JsNumber(1)]),
              JsString(<<"x">>)}

FileKeys == {"serverName", "maxFileSize", "timeout", "tools"}

\* the object a choice of values writes: the keys that are there
FileObject(choice) ==
    ConfigObject([k \in {x \in FileKeys : choice[x] # NotThere} |-> choice[k]])

\* the configuration file findConfigFile finds: none, one that is not JSON,
\* one that holds a number, or one that holds an object
ConfigFiles ==
    {[kind |-> "none"], [kind |-> "invalid"],
     [kind |-> "json", value |-> JsNumber(3)]}
    \cup {[kind |-> "json",
           value |-> FileObject([serverName |-> a, maxFileSize |-> b,
                                 timeout |-> c, tools |-> d])] :
            a \in FileValues("serverName"), b \in FileValues("maxFileSize"),
            c \in FileValues("timeout"), d \in FileValues("tools")}

\* the directories there are before the configuration is loaded
Disks ==
    {[config |-> f, dirs |-> ds] :
        f \in ConfigFiles, ds \in {{}, {JsString(<<"./data">>)}}}

\* the process starts: index.js has yet to call configLoader.loadConfig()
InitConfig ==
    /\ tools = <<>>
    /\ CONFIG = NoConfig
    /\ config = NoConfig
    /\ pc = "boot"
    /\ connected = FALSE
    /\ dir = NoDir
    /\ toolFiles = <<>>
    /\ diagnostics = <<>>
    /\ initCount = 0
    /\ doc = DocAbsent
    /\ now = 1
    /\ last = NoCall
    /\ prev = NoCall
    /\ inflight = NoneInFlight
    /\ env \in Environments
    /\ disk \in Disks

\* const CONFIG = configLoader.loadConfig(): a throw ends the process
LoadConfig ==
    /\ pc = "boot"
    /\ LET r == loadConfig(env, disk)
       IN /\ last' = [op |-> "loadConfig", outcome |-> r.outcome,
                      config |-> r.config, diskBefore |-> disk]
          /\ CONFIG' = IF r.outcome.kind = "return" THEN r.outcome.value
                       ELSE CONFIG
          /\ pc' = IF r.outcome.kind = "return" THEN "loaded" ELSE "exited"
          /\ disk' = [disk EXCEPT !.dirs = r.dirs]
          /\ diagnostics' = r.lines
    /\ UNCHANGED <<tools, config, connected, dir, toolFiles, initCount, doc,
                   now, prev, inflight, env>>

NextConfig == LoadConfig

SpecConfig == InitConfig /\ [][NextConfig]_vars

----------------------------------------------------------------------------
(* Properties of startup and of the serving phase *)

IsRequest(l) == l.op \in {"ListTools", "CallTool"}

WellFormed(mod) ==
    mod.kind = "default" /\ ~Falsy(mod.name) /\ mod.hasHandler

\* every built-in name and every name a well-formed file exports has an entry
FullyPopulated(m) ==
    /\ \A i \in 1..Len(BuiltInNames) : MapHas(m, BuiltInNames[i])
    /\ dir.exists =>
          \A f \in JsFiles : WellFormed(dir.files[f]) =>
                                 MapHas(m, dir.files[f].name)

\* C3: initialize runs once and has completed before any ListTools or
\* CallTool request is served; no request sees an empty or partly
\* populated registry.
C3_LoaderBeforeRequests ==
    /\ initCount <= 1
    /\ connected => (initCount = 1 /\ pc = "initialized" /\ toolFiles = <<>>)
    /\ IsRequest(last) =>
          /\ initCount = 1
          /\ pc = "initialized"
          /\ toolFiles = <<>>
          /\ FullyPopulated(last.before)

C3_Witness ==
    /\ last.op = "CallTool"
    /\ last.name = "custom_tool"
    /\ MapHas(last.before, "custom_tool")
    /\ last.raw.kind = "return"

LoaderDone == pc = "initialized" /\ dir.exists

\* the lines "Failed to load custom tool <f>: ..." written for file f
Failures(f) ==
    {i \in 1..Len(diagnostics) :
        diagnostics[i].line = "Failed to load custom tool"
        /\ diagnostics[i].file = f}

\* C4: once loadCustomTools has run over a directory, every well-formed
\* module is registered and every malformed file has been skipped with
\* exactly one diagnostic.
C4_LoadIsolation ==
    LoaderDone =>
        \A f \in JsFiles :
            IF WellFormed(dir.files[f])
            THEN MapHas(tools, dir.files[f].name) /\ Failures(f) = {}
            ELSE Cardinality(Failures(f)) = 1

\* the positions of the lines written for files, in the order written
FileLines ==
    {i \in 1..Len(diagnostics) :
        diagnostics[i].line \in {"Failed to load custom tool",
                                 "Loaded custom tool from"}}

\* the well-formed files that export the name n
Exporting(n) ==
    {f \in JsFiles : WellFormed(dir.files[f]) /\ dir.files[f].name = n}

\* C5: custom modules are registered in alphabetical order of their file
\* names, after the built-ins, and the entry of a name is the descriptor of
\* the alphabetically last file that exports it.
C5_AlphabeticalLastWins ==
    LoaderDone =>
        /\ \A i, j \in FileLines :
              i < j => Alphabetical(diagnostics[i].file, diagnostics[j].file)
        /\ \A i \in 1..Len(BuiltInNames) : tools[i].key = BuiltInNames[i]
        /\ \A f \in JsFiles :
              WellFormed(dir.files[f]) =>
                  \E g \in Exporting(dir.files[f].name) :
                      /\ \A h \in Exporting(dir.files[f].name) :
                            h = g \/ Alphabetical(h, g)
                      /\ MapGet(tools, dir.files[f].name).handler = FileHandler(g)

\* the call resolved to one of the handlers of loadBuiltInTools
BuiltInCall(l) ==
    /\ l.op = "CallTool"
    /\ MapHas(l.before, l.name)
    /\ IsBuiltInHandler(MapGet(l.before, l.name).handler)

\* C10: once the loader has completed, a getTools call or an executeTool call
\* of a built-in operation, successful or failing, leaves the registry as
\* it was.
C10_RequestsLeaveRegistry ==
    (last.op = "ListTools" \/ BuiltInCall(last)) => tools = last.before

C10_Witness ==
    /\ BuiltInCall(last)
    /\ last.name = "remove_item"
    /\ last.outcome.kind = "throw"
    /\ doc.exists
    /\ Len(doc.items) > 0

----------------------------------------------------------------------------
(* Properties of the item document *)

Succeeded(l, name) ==
    l.op = "CallTool" /\ l.name = name /\ l.outcome.kind = "return"

StoredItems == IF doc.exists THEN doc.items ELSE <<>>
ItemsOf(d) == IF d.exists THEN d.items ELSE <<>>

DistinctIds(items) ==
    \A i, j \in 1..Len(items) : i # j => items[i].id # items[j].id

\* C11: the items of the document have pairwise distinct ids in every state
\* add_item and remove_item can reach, and two successful add_item calls,
\* one after the other, return different ids however little time passes
\* between them
C11_IdsAreUnique ==
    /\ DistinctIds(StoredItems)
    /\ (Succeeded(prev, "add_item") /\ Succeeded(last, "add_item"))
           => prev.outcome.value.item.id # last.outcome.value.item.id

ListsAll(l) == l.op = "CallTool" /\ l.name = "list_items" /\ l.args = Obj

\* C12: a successful add_item followed, with no add or remove between, by
\* list_items({}) lists the collection stored before the add (empty when
\* there was no document) with the new item, as stored, at the end, and a
\* count one greater than the number of items stored before
C12_AddThenListAppends ==
    (Succeeded(prev, "add_item") /\ ListsAll(last))
        => last.outcome =
               Return([type |-> "object",
                       items |-> Append(ItemsOf(prev.docBefore),
                                        writeJson(prev.outcome.value.item)),
                       count |-> Len(ItemsOf(prev.docBefore)) + 1])

C12_Witness ==
    /\ Succeeded(prev, "add_item")
    /\ ListsAll(last)
    /\ Len(ItemsOf(prev.docBefore)) >= 1
    /\ last.outcome.kind = "return"
    /\ last.outcome.value.count = Len(ItemsOf(prev.docBefore)) + 1

\* a remove_item({id: X}) call where X is the id of no stored item
RemovesUnknown(l) ==
    /\ l.op = "CallTool" /\ l.name = "remove_item"
    /\ l.args.type = "object" /\ "id" \in DOMAIN l.args
    /\ \A i \in 1..Len(ItemsOf(l.docBefore)) :
           IdDiffers(ItemsOf(l.docBefore)[i], l.args.id)

\* the failures by which remove_item says that there is nothing to remove
NotFoundError(l) ==
    IF l.docBefore.exists
    THEN Error(<<"Item with ID '", l.args.id, "' not found">>)
    ELSE Error(<<"No items found">>)

\* C13: remove_item({id: X}) with X the id of no stored item (or with no
\* document at all) fails with a not-found error, leaves the document as it
\* was, items and order, and writes nothing
C13_RemoveUnknownFails ==
    RemovesUnknown(last)
        => /\ last.raw = Throw(NotFoundError(last))
           /\ last.outcome.kind = "throw"
           /\ last.outcome.error.message
                  = <<"Tool '", "remove_item", "' execution failed: ">>
                    \o NotFoundError(last).message
           /\ last.response.kind = "error"
           /\ doc = last.docBefore
           /\ ~last.wrote

C13_Witness ==
    /\ RemovesUnknown(last)
    /\ last.docBefore.exists
    /\ Len(last.docBefore.items) >= 1
    /\ last.outcome.kind = "throw"
    /\ doc = last.docBefore

----------------------------------------------------------------------------
(* Properties of calls in flight together *)

Returned(s) == inflight[s].pc = "done" /\ inflight[s].outcome.kind = "return"

\* each of the two calls read the document before the other wrote it
Overlapped ==
    \A s \in Slots : Returned(s) /\ ~inflight[s].readAfterOther

\* C14: nothing orders two add_item or remove_item calls in flight
\* together: when an add_item and another add_item or remove_item have both
\* read the document before either wrote it and both report success, both
\* worked from the same reading and the document is what one of them alone
\* made of that reading, so that it reflects only one of the two calls
C14_OverlapLosesUpdate ==
    \A a \in Slots :
        LET b == Other(a)
        IN (Overlapped /\ inflight[a].name = "add_item")
              => /\ inflight[a].snapshot = inflight[b].snapshot
                 /\ doc \in {inflight[a].data, inflight[b].data}

\* two add_item calls both succeeded and the document gained one item
C14_Witness ==
    /\ Overlapped
    /\ \A s \in Slots : inflight[s].name = "add_item"
    /\ inflight["first"].snapshot.exists
    /\ Len(doc.items) = Len(inflight["first"].snapshot.items) + 1

----------------------------------------------------------------------------
(* Properties of the answers to requests *)

\* the text msg has name among its pieces
Mentions(msg, name) == \E i \in 1..Len(msg) : msg[i] = name

\* C15: every CallTool request whose handler ends is answered once, with
\* the payload of the success or with a structured failure that names the
\* operation and carries a message, and the server goes on serving, whether
\* the name is unknown or the handler throws
C15_EveryRequestAnswered ==
    last.op = "CallTool"
        => /\ connected
           /\ \/ /\ last.response.kind = "result"
                 /\ last.outcome.kind = "return"
              \/ /\ last.response.kind = "error"
                 /\ last.outcome.kind = "throw"
                 /\ last.response.message # <<>>
                 /\ Mentions(last.response.message, last.name)

----------------------------------------------------------------------------
(* Properties of searching and listing *)

SameLetter(x, y) ==
    x = y \/ {x, y} \in {{"a", "A"}, {"b", "B"}, {"c", "C"}}

\* text contains q, letters compared without regard to case
ContainsNoCase(text, q) ==
    \E i \in 0..(Len(text) - Len(q)) :
        \A k \in 1..Len(q) : SameLetter(text[i + k], q[k])

NameOrDescriptionContains(item, q) ==
    \E f \in {"name", "description"} :
        /\ f \in DOMAIN item
        /\ item[f].type = "string"
        /\ ContainsNoCase(item[f].text, q)

Searches(l) ==
    /\ l.op = "CallTool" /\ l.name = "search_items"
    /\ l.args.type = "object" /\ "query" \in DOMAIN l.args
    /\ l.args.query.type = "string"

ListsWithLimit(l) ==
    /\ l.op = "CallTool" /\ l.name = "list_items"
    /\ l.args.type = "object" /\ "limit" \in DOMAIN l.args
    /\ l.args.limit.type = "number"

\* the stored items the filter of the call lets through
Filtered(l) ==
    IF "filter" \in DOMAIN l.args
    THEN SelectSeq(ItemsOf(l.docBefore),
                   LAMBDA item :
                       NameOrDescriptionContains(item, l.args.filter.text))
    ELSE ItemsOf(l.docBefore)

\* the first n items of s, all of s when it has fewer, none when n <= 0
FirstN(s, n) == SubSeq(s, 1, IF n < Len(s) THEN n ELSE Len(s))

\* C17: list_items({limit: L}) with a number L, zero and negative numbers
\* included, returns at most L items, which are the first L of the
\* (filtered) collection, and a count that is the number of items returned
C17_LimitTruncates ==
    ListsWithLimit(last)
        => /\ last.outcome.kind = "return"
           /\ Len(last.outcome.value.items) <= last.args.limit.num
           /\ last.outcome.value.items
                  = FirstN(Filtered(last), last.args.limit.num)
           /\ last.outcome.value.count = Len(last.outcome.value.items)

Lists(l) == l.op = "CallTool" /\ l.name = "list_items"

\* C18: list_items({}) called twice with no add or remove between gives the
\* same result both times, and no list_items call, whatever its arguments
\* and its outcome, writes the document or leaves it changed
C18_ListReadsOnly ==
    /\ (ListsAll(prev) /\ ListsAll(last)) => last.outcome = prev.outcome
    /\ Lists(last) => (~last.wrote /\ doc = last.docBefore)

\* two list_items({}) calls in a row over a document with items
C18_Witness ==
    /\ ListsAll(prev) /\ ListsAll(last)
    /\ last.outcome.kind = "return"
    /\ last.outcome.value.count >= 1
    /\ doc = prev.docBefore

----------------------------------------------------------------------------
(* Properties of dispatch *)

\* C19: when the handler of the named tool completes normally, executeTool
\* has called it once, with the args it received and no others (absent args
\* stay absent), and returns what the handler returned, unchanged
C19_HandlerCalledOnceAsGiven ==
    (last.op = "executeTool" /\ last.raw.kind = "return")
        => /\ last.invoked
                  = <<[handler |-> MapGet(last.before, last.name).handler,
                       args |-> last.args]>>
           /\ last.outcome = last.raw

\* a call without args whose handler returned nothing
C19_Witness ==
    /\ last.op = "executeTool"
    /\ last.args = JsUndefined
    /\ last.raw = Return(JsUndefined)
    /\ Len(last.invoked) = 1
    /\ last.outcome = Return(JsUndefined)

----------------------------------------------------------------------------
(* Properties of a missing custom tools directory *)

MissingDirectory == ~Falsy(CONFIG.customToolsDir) /\ ~dir.exists

\* C20: with a custom tools directory configured that does not exist, the
\* load of custom tools does nothing and is no error: initialize completes,
\* and the registry holds the five built-in tools and nothing else, as
\* loadBuiltInTools left it
C20_MissingDirectoryIsNoOp ==
    (MissingDirectory /\ initCount = 1)
        => /\ pc \in {"initialized", "exited"}
           /\ toolFiles = <<>>
           /\ pc = "initialized"
                 => /\ [i \in 1..Len(tools) |-> tools[i].key] = BuiltInNames
                    /\ Len(tools) = 5
                    /\ \A i \in 1..Len(tools) :
                           tools[i].value.handler
                               = BuiltInHandler(tools[i].key)
                    /\ tools = loadBuiltInTools(<<>>)

\* the server serving after a load from a directory that is not there
C20_Witness ==
    /\ MissingDirectory
    /\ pc = "initialized"
    /\ connected
    /\ Len(tools) = 5
    /\ Len(diagnostics) = 1

----------------------------------------------------------------------------
(* Properties of the configuration loader *)

MappedKeys == {envMapping[i].configKey : i \in 1..Len(envMapping)}

EnvVarOf(key) ==
    envMapping[CHOOSE i \in 1..Len(envMapping) :
                   envMapping[i].configKey = key].envVar

ConfigReturned == last.op = "loadConfig" /\ last.outcome.kind = "return"

\* the object the configuration file holds, the empty one when there is no
\* file or the file holds no object
FileProps ==
    LET f == last.diskBefore.config
    IN IF f.kind = "json" /\ f.value.type = "object" THEN f.value.props
       ELSE <<>>

\* what the file and the defaults make of a key
BelowEnv(key) ==
    IF key \in DOMAIN FileProps THEN FileProps[key]
    ELSE getDefaults.props[key]

\* under tools, a key the file does not define keeps its default
ToolsAsLeft(returned) ==
    IF "tools" \in DOMAIN FileProps /\ FileProps["tools"].type # "object"
    THEN returned["tools"] = FileProps["tools"]
    ELSE LET fileTools == IF "tools" \in DOMAIN FileProps
                          THEN FileProps["tools"].props ELSE <<>>
             defaults == getDefaults.props["tools"].props
         IN /\ returned["tools"].type = "object"
            /\ DOMAIN returned["tools"].props
                   = DOMAIN defaults \cup DOMAIN fileTools
            /\ \A k \in DOMAIN returned["tools"].props :
                   returned["tools"].props[k]
                       = IF k \in DOMAIN fileTools THEN fileTools[k]
                         ELSE defaults[k]

PositiveNumber(v) == v.type = "number" /\ ~IsNaN(v) /\ v.num > 0

LimitsPositive(cfg) ==
    /\ PositiveNumber(Prop(cfg.props, "maxFileSize"))
    /\ PositiveNumber(Prop(cfg.props, "timeout"))

\* C22: whenever loadConfig returns, whatever the defaults, the file and
\* the environment strings, the maxFileSize and the timeout of the returned
\* configuration are numbers greater than zero; with any other value
\* loadConfig fails instead of returning
C22_ReturnedLimitsArePositiveNumbers ==
    last.op = "loadConfig"
        => /\ last.outcome.kind = "return" => LimitsPositive(last.outcome.value)
           /\ ~LimitsPositive(last.config) => last.outcome.kind = "throw"
=============================================================================
